---- MODULE Spec2Model ----
(***************************************************************************)
(* A model of promise4g (src/promise.go): the settlement primitive         *)
(* (resolve / reject behind a sync.Once, two atomic.Value slots and a done *)
(* channel), the panic guard, construction, and Await with a context.      *)
(*                                                                         *)
(* Goroutines are modelled as threads with a program counter:              *)
(*   - the task goroutine of a promise (the wrapper NewWithPool submits),  *)
(*   - helper goroutines the task starts and hands its resolve / reject    *)
(*     callbacks to (what Race does with `go func`),                       *)
(*   - waiter goroutines blocked in Await.                                 *)
(* Every Go statement that touches shared state is its own step, so that   *)
(* all interleavings of concurrent resolve / reject / Await are explored.  *)
(***************************************************************************)
EXTENDS Naturals, FiniteSets, Sequences, TLC

\* ---------------------------------------------------------------- bounds

\* resolve / reject calls the task's code and its helper goroutines may make
\* on one promise (the panic guard's own reject comes on top)
MaxCalls == 2

\* goroutines calling Await on the promise
NumWaiters == 2

\* input promises a combinator (All, Race) may be given
NumInputs == 2

\* ---------------------------------------------------------------- values

\* An interface value: what an atomic.Value, an error or a T can hold.
Iface(k, t) == [kind |-> k, text |-> t]

\* atomic.Value before the first Store: Load returns nil
Unset == Iface("unset", "")
\* the nil interface (a nil error, or a nil T when T is an interface type)
Nil == Iface("nil", "")
\* `var t T`
Zero == Iface("zero", "")
\* ctx.Err() of a cancelled context
CtxErr == Iface("ctx", "context canceled")

Values == {Iface("val", "a"), Iface("val", "b")}
Errors == {Iface("err", "e1"), Iface("err", "e2")}

\* what a task may pass to resolve (T is a concrete type, as the string and
\* int of the tests: every T value can be stored) and to reject (any error,
\* the nil error too)
ResolveArgs == Values
RejectArgs == Errors \cup {Nil}

\* what a task may panic with: an error, or a value that is no error
PanicValues == {Iface("err", "e1"), Iface("str", "boom")}

\* panic("sync/atomic: store of nil value into Value"): a string
NilStorePanic == Iface("str", "store of nil value into Value")
\* runtime error "close of closed channel": a runtime.Error
CloseClosedPanic == Iface("err", "close of closed channel")

IsError(v) == v.kind \in {"err", "fmt", "ctx"}

\* fmt.Errorf("%v", v)
FmtErrorf(v) == Iface("fmt", v.text)

\* ---------------------------------------------------------------- threads

Promises == {"p"}
Helpers == {"h"}
Waiters == 1..NumWaiters

\* the task goroutine of promise p is named p
Threads == Promises \cup Helpers

\* the promise whose resolve / reject a thread holds
PromiseOf(t) == IF t \in Promises THEN t ELSE "p"

\* the promise a waiter awaits
Awaited(w) == "p"

NilFn == "nil"
Tasks == {NilFn, "task"}
Pools == {NilFn, "pool"}

NoCall == [op |-> "none", arg |-> Nil, from |-> "none"]
NoFirst == [thr |-> "none", op |-> "none", arg |-> Nil]
NoResult == [val |-> Unset, err |-> Unset]

\* the promises handed to a combinator, by position
Inputs == 1..NumInputs
\* a promise that is not settled
Pending == [value |-> Unset, err |-> Unset, done |-> FALSE]
NoFire == NumInputs + 1
NoGo == NumInputs + 1
\* the function given to the combinator was not called
NoIO == [arg |-> Unset, ret |-> NoResult, panic |-> Nil]

VARIABLES
    value,      \* Promise.value (atomic.Value)
    err,        \* Promise.err (atomic.Value)
    done,       \* Promise.done is closed
    once,       \* Promise.once: "idle", "running" (f is executing), "done"
    closes,     \* close(p.done) statements executed
    ctor,       \* NewWithPool for this promise: "none", "panic", "ok"
    ctorArgs,   \* the arguments NewWithPool was called with
    queue,      \* promises whose wrapper was handed to pool.Go and not yet started
    pc,         \* position of each task / helper goroutine
    cur,        \* the resolve / reject call a goroutine is in
    ncalls,     \* resolve / reject calls made on the promise by the task's code and helpers
    pval,       \* the panic value a goroutine is unwinding with
    crashed,    \* an unrecovered panic ended the process
    first,      \* history: the first resolve / reject call invoked on the promise
    firstDone,  \* history: that call has completed
    seq,        \* history: no other call was invoked before it completed
    winner,     \* history: the call whose function sync.Once ran
    wpc,        \* position of each waiter: "idle", "waiting", "returned"
    wctx,       \* the waiter's context is cancelled
    wres,       \* what Await returned
    wvia,       \* the select case Await returned through: "ctx", "done"
    kind,       \* the combinator that was called: "none", "All", "Race", "Then"
    n,          \* len(promises) of that call
    built,      \* the call: "none", "panic", "ok" (it returned a promise)
    ctx,        \* the ctx given to the combinator is cancelled
    src,        \* the input promises: value, err, done of each
    settled,    \* history: the input promises in the order they settled
    firedAt,    \* history: how many inputs had settled when ctx was cancelled
    dst,        \* the promise the combinator returned: value, err, done, once
    wonBy,      \* history: the goroutine whose call settled dst (0: the task)
    tpc,        \* position of the combinator's task goroutine
    tres,       \* what p.Await(ctx) returned to the task (Then)
    k,          \* inputs the task's loop has started a goroutine for
    gpc,        \* position of the goroutine awaiting input i
    gres,       \* what p.Await(ctx) returned to that goroutine
    results,    \* the results slice of All
    wg,         \* the WaitGroup counter of All
    fnCalls,    \* history: calls of the function given to Then, Catch, Finally
    fnIO,       \* history: the argument and the outcome of that function's call
    workers     \* goroutines the pool runs at a time (0: as many as submitted)

pvars == <<value, err, done, once, closes>>
cvars == <<ctor, ctorArgs, queue>>
tvars == <<pc, cur, ncalls, pval, crashed>>
hvars == <<first, firstDone, seq, winner>>
wvars == <<wpc, wctx, wres, wvia>>
xvars == <<kind, n, built, ctx, src, settled, firedAt, dst, wonBy, tpc, tres, k,
           gpc, gres, results, wg, fnCalls, fnIO, workers>>
vars == <<pvars, cvars, tvars, hvars, wvars, xvars>>

Init ==
    /\ value = [p \in Promises |-> Unset]
    /\ err = [p \in Promises |-> Unset]
    /\ done = [p \in Promises |-> FALSE]
    /\ once = [p \in Promises |-> "idle"]
    /\ closes = [p \in Promises |-> 0]
    /\ ctor = [p \in Promises |-> "none"]
    /\ ctorArgs = [p \in Promises |-> [task |-> "none", pool |-> "none"]]
    /\ queue = {}
    /\ pc = [t \in Threads |-> "idle"]
    /\ cur = [t \in Threads |-> NoCall]
    /\ ncalls = [p \in Promises |-> 0]
    /\ pval = [t \in Threads |-> Nil]
    /\ crashed = FALSE
    /\ first = [p \in Promises |-> NoFirst]
    /\ firstDone = [p \in Promises |-> FALSE]
    /\ seq = [p \in Promises |-> TRUE]
    /\ winner = [p \in Promises |-> NoFirst]
    /\ wpc = [w \in Waiters |-> "idle"]
    /\ wctx = [w \in Waiters |-> FALSE]
    /\ wres = [w \in Waiters |-> NoResult]
    /\ wvia = [w \in Waiters |-> "none"]
    /\ kind = "none"
    /\ n = 0
    /\ built = "none"
    /\ ctx = FALSE
    /\ src = [i \in Inputs |-> Pending]
    /\ settled = <<>>
    /\ firedAt = NoFire
    /\ dst = [value |-> Unset, err |-> Unset, done |-> FALSE, once |-> FALSE]
    /\ wonBy = NoGo
    /\ tpc = "idle"
    /\ tres = NoResult
    /\ k = 0
    /\ gpc = [i \in Inputs |-> "idle"]
    /\ gres = [i \in Inputs |-> NoResult]
    /\ results = [i \in Inputs |-> Zero]
    /\ wg = 0
    /\ fnCalls = 0
    /\ fnIO = NoIO
    /\ workers = 0

\* ---------------------------------------------------------------- construction

\* pool.Go(f): the executor accepts the wrapper and will run it concurrently
PoolGo(p) == queue' = queue \cup {p}

NewWithPoolNoCheck(p, task, pool) ==
    /\ ~crashed
    /\ ctor[p] = "none"
    /\ ctorArgs' = [ctorArgs EXCEPT ![p] = [task |-> task, pool |-> pool]]
    /\ ctor' = [ctor EXCEPT ![p] = "ok"]
    /\ PoolGo(p)
    /\ UNCHANGED <<pvars, tvars, hvars, wvars>>
    /\ UNCHANGED xvars

\* NewWithPool(task, pool): panics on a nil task or a nil pool, else allocates
\* the promise (its fields are the zero values, done is open) and submits the
\* wrapper to the pool.
NewWithPool(p, task, pool) ==
    /\ ~crashed
    /\ ctor[p] = "none"
    /\ ctorArgs' = [ctorArgs EXCEPT ![p] = [task |-> task, pool |-> pool]]
    /\ IF task = NilFn \/ pool = NilFn
       THEN /\ ctor' = [ctor EXCEPT ![p] = "panic"]
            /\ UNCHANGED queue
       ELSE /\ ctor' = [ctor EXCEPT ![p] = "ok"]
            /\ PoolGo(p)
    /\ UNCHANGED <<pvars, tvars, hvars, wvars>>
    /\ UNCHANGED xvars

\* The executor starts the wrapper: `defer p.handlePanic(); task(p.resolve, p.reject)`
PoolRun(p) ==
    /\ ~crashed
    /\ p \in queue
    /\ queue' = queue \ {p}
    /\ pc' = [pc EXCEPT ![p] = "run"]
    /\ UNCHANGED <<pvars, ctor, ctorArgs, cur, ncalls, pval, crashed, hvars, wvars>>
    /\ UNCHANGED xvars

\* ---------------------------------------------------------------- settlement

\* A goroutine calls p.resolve / p.reject: it is now at once.Do.
Invoke(t, o, a, from) ==
    LET p == PromiseOf(t) IN
    /\ pc' = [pc EXCEPT ![t] = "call"]
    /\ cur' = [cur EXCEPT ![t] = [op |-> o, arg |-> a, from |-> from]]
    /\ first' = IF first[p] = NoFirst
                THEN [first EXCEPT ![p] = [thr |-> t, op |-> o, arg |-> a]]
                ELSE first
    /\ seq' = IF first[p] # NoFirst /\ ~firstDone[p]
              THEN [seq EXCEPT ![p] = FALSE]
              ELSE seq

\* history: the call of t is over (it returned or it panicked)
CallOver(t) ==
    LET p == PromiseOf(t) IN
    firstDone' = IF first[p].thr = t THEN [firstDone EXCEPT ![p] = TRUE] ELSE firstDone

\* resolve / reject returns to its caller: the task's code, or handlePanic
\* (after which the wrapper is over), or a helper goroutine, whose function
\* makes this one call and returns.
Return(t) ==
    /\ pc' = [pc EXCEPT ![t] = IF cur[t].from = "guard" \/ t \in Helpers
                                THEN "exit" ELSE "run"]
    /\ cur' = [cur EXCEPT ![t] = NoCall]
    /\ CallOver(t)
    /\ UNCHANGED <<pval, crashed>>

\* A panic leaves resolve / reject: in the task's code the deferred handlePanic
\* is next; in a helper goroutine, or inside handlePanic itself, nothing
\* recovers it and the process ends.
Unwind(t, x) ==
    /\ cur' = [cur EXCEPT ![t] = NoCall]
    /\ pval' = [pval EXCEPT ![t] = x]
    /\ CallOver(t)
    /\ IF t \in Promises /\ cur[t].from = "task"
       THEN /\ pc' = [pc EXCEPT ![t] = "defer"]
            /\ UNCHANGED crashed
       ELSE /\ pc' = [pc EXCEPT ![t] = "crash"]
            /\ crashed' = TRUE

\* p.resolve(value) is called by the task's code or by a helper goroutine
resolve(t, v) ==
    /\ ~crashed
    /\ pc[t] = "run"
    /\ ncalls[PromiseOf(t)] < MaxCalls
    /\ ncalls' = [ncalls EXCEPT ![PromiseOf(t)] = @ + 1]
    /\ Invoke(t, "resolve", v, "task")
    /\ UNCHANGED <<pvars, cvars, pval, crashed, firstDone, winner, wvars>>
    /\ UNCHANGED xvars

\* p.reject(err) is called by the task's code or by a helper goroutine
reject(t, e) ==
    /\ ~crashed
    /\ pc[t] = "run"
    /\ ncalls[PromiseOf(t)] < MaxCalls
    /\ ncalls' = [ncalls EXCEPT ![PromiseOf(t)] = @ + 1]
    /\ Invoke(t, "reject", e, "task")
    /\ UNCHANGED <<pvars, cvars, pval, crashed, firstDone, winner, wvars>>
    /\ UNCHANGED xvars

\* once.Do without its gate: f runs on every call
OnceDoNoGate(t) ==
    LET p == PromiseOf(t) IN
    /\ ~crashed
    /\ pc[t] = "call"
    /\ once[p] # "running"
    /\ once' = [once EXCEPT ![p] = "running"]
    /\ winner' = [winner EXCEPT ![p] = [thr |-> t, op |-> cur[t].op, arg |-> cur[t].arg]]
    /\ pc' = [pc EXCEPT ![t] = "once"]
    /\ UNCHANGED <<value, err, done, closes, cvars, cur, ncalls, pval, crashed,
                   first, firstDone, seq, wvars>>
    /\ UNCHANGED xvars

\* p.once.Do(f): a caller that finds the Once done returns at once; a caller
\* that finds f running blocks on the Once's mutex until f is over; the first
\* caller runs f.
OnceDo(t) ==
    LET p == PromiseOf(t) IN
    /\ ~crashed
    /\ pc[t] = "call"
    /\ once[p] # "running"
    /\ IF once[p] = "done"
       THEN /\ Return(t)
            /\ UNCHANGED <<once, winner>>
       ELSE /\ once' = [once EXCEPT ![p] = "running"]
            /\ winner' = [winner EXCEPT ![p] = [thr |-> t, op |-> cur[t].op, arg |-> cur[t].arg]]
            /\ pc' = [pc EXCEPT ![t] = "once"]
            /\ UNCHANGED <<cur, pval, crashed, firstDone>>
    /\ UNCHANGED <<value, err, done, closes, cvars, ncalls, first, seq, wvars>>
    /\ UNCHANGED xvars

\* a Store that takes a nil interface silently and leaves the slot empty
StoreNilSilently(t) ==
    LET p == PromiseOf(t) IN
    /\ ~crashed
    /\ pc[t] = "once"
    /\ IF cur[t].arg = Nil
       THEN UNCHANGED <<value, err>>
       ELSE IF cur[t].op = "resolve"
            THEN /\ value' = [value EXCEPT ![p] = cur[t].arg]
                 /\ UNCHANGED err
            ELSE /\ err' = [err EXCEPT ![p] = cur[t].arg]
                 /\ UNCHANGED value
    /\ pc' = [pc EXCEPT ![t] = "stored"]
    /\ UNCHANGED <<once, cur, pval, crashed, firstDone>>
    /\ UNCHANGED <<done, closes, cvars, ncalls, first, seq, winner, wvars>>
    /\ UNCHANGED xvars

\* p.value.Store(value) / p.err.Store(err) inside f. atomic.Value panics on a
\* nil interface; sync.Once then counts f as returned (the Once is done).
Store(t) ==
    LET p == PromiseOf(t) IN
    /\ ~crashed
    /\ pc[t] = "once"
    /\ IF cur[t].arg = Nil
       THEN /\ once' = [once EXCEPT ![p] = "done"]
            /\ Unwind(t, NilStorePanic)
            /\ UNCHANGED <<value, err>>
       ELSE /\ IF cur[t].op = "resolve"
               THEN /\ value' = [value EXCEPT ![p] = cur[t].arg]
                    /\ UNCHANGED err
               ELSE /\ err' = [err EXCEPT ![p] = cur[t].arg]
                    /\ UNCHANGED value
            /\ pc' = [pc EXCEPT ![t] = "stored"]
            /\ UNCHANGED <<once, cur, pval, crashed, firstDone>>
    /\ UNCHANGED <<done, closes, cvars, ncalls, first, seq, winner, wvars>>
    /\ UNCHANGED xvars

\* close(p.done) inside f; closing a closed channel panics
Close(t) ==
    LET p == PromiseOf(t) IN
    /\ ~crashed
    /\ pc[t] = "stored"
    /\ closes' = [closes EXCEPT ![p] = @ + 1]
    /\ IF done[p]
       THEN /\ once' = [once EXCEPT ![p] = "done"]
            /\ Unwind(t, CloseClosedPanic)
            /\ UNCHANGED done
       ELSE /\ done' = [done EXCEPT ![p] = TRUE]
            /\ pc' = [pc EXCEPT ![t] = "closed"]
            /\ UNCHANGED <<once, cur, pval, crashed, firstDone>>
    /\ UNCHANGED <<value, err, cvars, ncalls, first, seq, winner, wvars>>
    /\ UNCHANGED xvars

\* f returns: the Once is done and resolve / reject returns
OnceReturn(t) ==
    LET p == PromiseOf(t) IN
    /\ ~crashed
    /\ pc[t] = "closed"
    /\ once' = [once EXCEPT ![p] = "done"]
    /\ Return(t)
    /\ UNCHANGED <<value, err, done, closes, cvars, ncalls, first, seq, winner, wvars>>
    /\ UNCHANGED xvars

\* ---------------------------------------------------------------- the task and its guard

\* The task's code panics with x: the wrapper unwinds to the deferred handlePanic.
TaskPanic(p, x) ==
    /\ ~crashed
    /\ pc[p] = "run"
    /\ pc' = [pc EXCEPT ![p] = "defer"]
    /\ pval' = [pval EXCEPT ![p] = x]
    /\ UNCHANGED <<pvars, cvars, cur, ncalls, crashed, hvars, wvars>>
    /\ UNCHANGED xvars

\* The task's code returns: the deferred handlePanic runs with nothing to recover.
TaskReturn(p) ==
    /\ ~crashed
    /\ pc[p] = "run"
    /\ pc' = [pc EXCEPT ![p] = "defer"]
    /\ UNCHANGED <<pvars, cvars, cur, ncalls, pval, crashed, hvars, wvars>>
    /\ UNCHANGED xvars

\* The task's code starts a goroutine that holds resolve and reject and will
\* call one of them once: `go func() {...}()`
Spawn(p, h) ==
    /\ ~crashed
    /\ pc[p] = "run"
    /\ pc[h] = "idle"
    /\ PromiseOf(h) = p
    /\ pc' = [pc EXCEPT ![h] = "run"]
    /\ UNCHANGED <<pvars, cvars, cur, ncalls, pval, crashed, hvars, wvars>>
    /\ UNCHANGED xvars

\* a guard without its `case error:` the panic value is always formatted
PanicErrorAlwaysFormats(r) == FmtErrorf(r)

\* the error handlePanic rejects with: the panic value itself when it is an
\* error, else fmt.Errorf("%v", v)
PanicError(r) == IF IsError(r) THEN r ELSE FmtErrorf(r)

\* a guard that stores the error itself instead of calling p.reject
handlePanicStores(p) ==
    /\ ~crashed
    /\ pc[p] = "defer"
    /\ pc' = [pc EXCEPT ![p] = "exit"]
    /\ err' = IF pval[p] = Nil THEN err ELSE [err EXCEPT ![p] = PanicError(pval[p])]
    /\ UNCHANGED <<value, done, once, closes, cur, first, seq>>
    /\ UNCHANGED <<cvars, ncalls, pval, crashed, firstDone, winner, wvars>>
    /\ UNCHANGED xvars

\* handlePanic: `if r := recover(); r != nil { ...; p.reject(err) }`
handlePanic(p) ==
    /\ ~crashed
    /\ pc[p] = "defer"
    /\ IF pval[p] = Nil
       THEN /\ pc' = [pc EXCEPT ![p] = "exit"]
            /\ UNCHANGED <<cur, first, seq>>
       ELSE Invoke(p, "reject", PanicError(pval[p]), "guard")
    /\ UNCHANGED <<pvars, cvars, ncalls, pval, crashed, firstDone, winner, wvars>>
    /\ UNCHANGED xvars

\* ---------------------------------------------------------------- Await

\* A goroutine calls p.Await(ctx) and blocks in the select; the context it
\* passes may be cancelled already. The waiters are interchangeable, so they
\* are numbered in the order of their calls.
Await(w, cancelled) ==
    /\ ~crashed
    /\ wpc[w] = "idle"
    /\ \A v \in Waiters : v < w => wpc[v] # "idle"
    /\ ctor[Awaited(w)] = "ok"
    /\ wpc' = [wpc EXCEPT ![w] = "waiting"]
    /\ wctx' = [wctx EXCEPT ![w] = cancelled]
    /\ UNCHANGED <<pvars, cvars, tvars, hvars, wres, wvia>>
    /\ UNCHANGED xvars

\* The context of a blocked waiter is cancelled (or its deadline passes).
CtxCancel(w) ==
    /\ ~crashed
    /\ ~wctx[w]
    /\ wpc[w] = "waiting"
    /\ wctx' = [wctx EXCEPT ![w] = TRUE]
    /\ UNCHANGED <<pvars, cvars, tvars, hvars, wpc, wres, wvia>>
    /\ UNCHANGED xvars

\* `case <-p.done:` of Await: the stored error if there is one, else the value
Outcome(p) ==
    IF err[p] # Unset
    THEN [val |-> Zero, err |-> err[p]]
    ELSE [val |-> value[p], err |-> Nil]

\* a select with a `default:`-like done case: it does not wait for the close
AwaitSelectNoBlock(w) ==
    LET p == Awaited(w) IN
    /\ ~crashed
    /\ wpc[w] = "waiting"
    /\ \/ /\ wctx[w]
          /\ wres' = [wres EXCEPT ![w] = [val |-> Zero, err |-> CtxErr]]
          /\ wvia' = [wvia EXCEPT ![w] = "ctx"]
       \/ /\ wres' = [wres EXCEPT ![w] = Outcome(p)]
          /\ wvia' = [wvia EXCEPT ![w] = "done"]
    /\ wpc' = [wpc EXCEPT ![w] = "returned"]
    /\ UNCHANGED <<pvars, cvars, tvars, hvars, wctx>>
    /\ UNCHANGED xvars

\* a cancelled Await that settles the promise with the context's error
AwaitSelectCancelSettles(w) ==
    LET p == Awaited(w) IN
    /\ ~crashed
    /\ wpc[w] = "waiting"
    /\ \/ /\ wctx[w]
          /\ wres' = [wres EXCEPT ![w] = [val |-> Zero, err |-> CtxErr]]
          /\ wvia' = [wvia EXCEPT ![w] = "ctx"]
          /\ IF done[p]
             THEN UNCHANGED <<err, done>>
             ELSE /\ err' = [err EXCEPT ![p] = CtxErr]
                  /\ done' = [done EXCEPT ![p] = TRUE]
       \/ /\ done[p]
          /\ wres' = [wres EXCEPT ![w] = Outcome(p)]
          /\ wvia' = [wvia EXCEPT ![w] = "done"]
          /\ UNCHANGED <<err, done>>
    /\ wpc' = [wpc EXCEPT ![w] = "returned"]
    /\ UNCHANGED <<value, once, closes, cvars, tvars, hvars, wctx>>
    /\ UNCHANGED xvars

\* a done signal that is one message, received by one waiter, instead of a close
AwaitSelectConsumes(w) ==
    LET p == Awaited(w) IN
    /\ ~crashed
    /\ wpc[w] = "waiting"
    /\ \/ /\ wctx[w]
          /\ wres' = [wres EXCEPT ![w] = [val |-> Zero, err |-> CtxErr]]
          /\ wvia' = [wvia EXCEPT ![w] = "ctx"]
          /\ UNCHANGED done
       \/ /\ done[p]
          /\ wres' = [wres EXCEPT ![w] = Outcome(p)]
          /\ wvia' = [wvia EXCEPT ![w] = "done"]
          /\ done' = [done EXCEPT ![p] = FALSE]
    /\ wpc' = [wpc EXCEPT ![w] = "returned"]
    /\ UNCHANGED <<value, err, once, closes, cvars, tvars, hvars, wctx>>
    /\ UNCHANGED xvars

\* The select of Await: either ready case may be taken; none ready, it blocks.
AwaitSelect(w) ==
    LET p == Awaited(w) IN
    /\ ~crashed
    /\ wpc[w] = "waiting"
    /\ \/ /\ wctx[w]
          /\ wres' = [wres EXCEPT ![w] = [val |-> Zero, err |-> CtxErr]]
          /\ wvia' = [wvia EXCEPT ![w] = "ctx"]
       \/ /\ done[p]
          /\ wres' = [wres EXCEPT ![w] = Outcome(p)]
          /\ wvia' = [wvia EXCEPT ![w] = "done"]
    /\ wpc' = [wpc EXCEPT ![w] = "returned"]
    /\ UNCHANGED <<pvars, cvars, tvars, hvars, wctx>>
    /\ UNCHANGED xvars

\* ---------------------------------------------------------------- combinators

\* the state of the primitive's model, which the combinators' steps leave alone
prim == <<pvars, cvars, tvars, hvars, wvars>>

\* a []T
Slice(r) == [kind |-> "slice", text |-> r]

\* what Await returns through `case <-p.done:` for a promise in state q
OutcomeOf(q) ==
    IF q.err # Unset
    THEN [val |-> Zero, err |-> q.err]
    ELSE [val |-> q.value, err |-> Nil]

\* q.Await(c): the returns its select can make now (none: it blocks)
AwaitReturns(q, c) ==
    (IF c THEN {[val |-> Zero, err |-> CtxErr]} ELSE {}) \cup
    (IF q.done THEN {OutcomeOf(q)} ELSE {})

\* a settlement without the Once: every call stores
SettleNoGate(d, op, arg) ==
    IF arg = Nil THEN [d EXCEPT !.once = TRUE]
    ELSE IF op = "resolve"
         THEN [d EXCEPT !.value = arg, !.done = TRUE, !.once = TRUE]
         ELSE [d EXCEPT !.err = arg, !.done = TRUE, !.once = TRUE]

\* resolve / reject on the promise d, as one step: sync.Once lets the first
\* call store and close; a nil argument spends the Once and stores nothing
Settle(d, op, arg) ==
    IF d.once THEN d
    ELSE IF arg = Nil THEN [d EXCEPT !.once = TRUE]
    ELSE IF op = "resolve"
         THEN [d EXCEPT !.value = arg, !.done = TRUE, !.once = TRUE]
         ELSE [d EXCEPT !.err = arg, !.done = TRUE, !.once = TRUE]

\* history: goroutine g makes a resolve / reject call on dst
Won(g) == IF dst.once THEN wonBy ELSE g

\* The task of input promise i settles it: resolve(v), reject(e), or a panic
\* that its guard turns into reject(PanicError(x)).
SrcSettle(i, op, arg) ==
    /\ built = "ok"
    /\ i <= n
    /\ ~src[i].done
    /\ src' = [src EXCEPT ![i] =
                  [value |-> IF op = "resolve" THEN arg ELSE Unset,
                   err |-> IF op = "reject" THEN arg ELSE Unset,
                   done |-> TRUE]]
    /\ settled' = Append(settled, i)
    /\ UNCHANGED <<kind, n, built, ctx, firedAt, dst, wonBy, tpc, tres, k,
                   gpc, gres, results, wg, fnCalls, fnIO, workers>>
    /\ UNCHANGED prim

SrcResolve(i, v) == SrcSettle(i, "resolve", v)
SrcReject(i, e) == SrcSettle(i, "reject", e)
SrcPanic(i, x) == SrcSettle(i, "reject", PanicError(x))

\* The ctx given to the combinator is cancelled (or its deadline passes).
CtxFire ==
    /\ built = "ok"
    /\ ~ctx
    /\ ctx' = TRUE
    /\ firedAt' = Len(settled)
    /\ UNCHANGED <<kind, n, built, src, settled, dst, wonBy, tpc, tres, k,
                   gpc, gres, results, wg, fnCalls, fnIO, workers>>
    /\ UNCHANGED prim

\* The goroutine for input i starts and calls p.Await(ctx).
GoRun(i) ==
    /\ gpc[i] = "queued"
    /\ gpc' = [gpc EXCEPT ![i] = "await"]
    /\ UNCHANGED <<kind, n, built, ctx, src, settled, firedAt, dst, wonBy, tpc, tres, k,
                   gres, results, wg, fnCalls, fnIO, workers>>
    /\ UNCHANGED prim

\* `result, err := p.Await(ctx)` returns in the goroutine for input i.
GoAwait(i) ==
    /\ gpc[i] = "await"
    /\ \E r \in AwaitReturns(src[i], ctx) : gres' = [gres EXCEPT ![i] = r]
    /\ gpc' = [gpc EXCEPT ![i] = "got"]
    /\ UNCHANGED <<kind, n, built, ctx, src, settled, firedAt, dst, wonBy, tpc, tres, k,
                   results, wg, fnCalls, fnIO, workers>>
    /\ UNCHANGED prim

\* ---------------------------------------------------------------- All

\* AllWithPool without the check of len(promises)
AllWithPoolNoCheck(m) ==
    /\ kind = "none"
    /\ kind' = "All"
    /\ n' = m
    /\ built' = "ok"
    /\ tpc' = "queued"
    /\ UNCHANGED <<ctx, src, settled, firedAt, dst, wonBy, tres, k,
                   gpc, gres, results, wg, fnCalls, fnIO, workers>>
    /\ UNCHANGED prim

\* AllWithPool(ctx, pool, promises...) with m promises: panics on none, else
\* NewWithPool hands the aggregator task to the pool.
AllWithPool(m) ==
    /\ kind = "none"
    /\ kind' = "All"
    /\ n' = m
    /\ IF m = 0
       THEN /\ built' = "panic"
            /\ UNCHANGED tpc
       ELSE /\ built' = "ok"
            /\ tpc' = "queued"
    /\ UNCHANGED <<ctx, src, settled, firedAt, dst, wonBy, tres, k,
                   gpc, gres, results, wg, fnCalls, fnIO, workers>>
    /\ UNCHANGED prim

\* The aggregator task starts: `results := make([]T, len(promises))`,
\* `wg.Add(len(promises))`.
AllTaskRun ==
    /\ kind = "All"
    /\ tpc = "queued"
    /\ tpc' = "loop"
    /\ results' = [i \in 1..n |-> Zero]
    /\ wg' = n
    /\ UNCHANGED <<kind, n, built, ctx, src, settled, firedAt, dst, wonBy, tres, k,
                   gpc, gres, fnCalls, fnIO, workers>>
    /\ UNCHANGED prim

\* One iteration of the loop: pool.Go(func() {...}) for the next input; after
\* the last one the task is at wg.Wait().
AllLoop ==
    /\ kind = "All"
    /\ tpc = "loop"
    /\ k' = k + 1
    /\ gpc' = [gpc EXCEPT ![k + 1] = "queued"]
    /\ tpc' = IF k + 1 = n THEN "wait" ELSE "loop"
    /\ UNCHANGED <<kind, n, built, ctx, src, settled, firedAt, dst, wonBy, tres,
                   gres, results, wg, fnCalls, fnIO, workers>>
    /\ UNCHANGED prim

\* a waiter that rejects only when it is the last one running
AllGoDoneLast(i) ==
    /\ kind = "All"
    /\ gpc[i] = "got"
    /\ IF gres[i].err # Nil
       THEN /\ wg = 1
            /\ dst' = Settle(dst, "reject", gres[i].err)
            /\ wonBy' = Won(i)
            /\ UNCHANGED results
       ELSE /\ results' = [results EXCEPT ![i] = gres[i].val]
            /\ UNCHANGED <<dst, wonBy>>
    /\ wg' = wg - 1
    /\ gpc' = [gpc EXCEPT ![i] = "exit"]
    /\ UNCHANGED <<kind, n, built, ctx, src, settled, firedAt, tpc, tres, k,
                   gres, fnCalls, fnIO, workers>>
    /\ UNCHANGED prim

\* a waiter that appends its result instead of writing slot i
AllGoDoneAppends(i) ==
    /\ kind = "All"
    /\ gpc[i] = "got"
    /\ IF gres[i].err # Nil
       THEN /\ dst' = Settle(dst, "reject", gres[i].err)
            /\ wonBy' = Won(i)
            /\ UNCHANGED results
       ELSE /\ results' = [results EXCEPT ![n - wg + 1] = gres[i].val]
            /\ UNCHANGED <<dst, wonBy>>
    /\ wg' = wg - 1
    /\ gpc' = [gpc EXCEPT ![i] = "exit"]
    /\ UNCHANGED <<kind, n, built, ctx, src, settled, firedAt, tpc, tres, k,
                   gres, fnCalls, fnIO, workers>>
    /\ UNCHANGED prim

\* The waiter for input i after its Await: `if err != nil { reject(err); return }`,
\* `results[i] = result`, and the deferred wg.Done().
AllGoDone(i) ==
    /\ kind = "All"
    /\ gpc[i] = "got"
    /\ IF gres[i].err # Nil
       THEN /\ dst' = Settle(dst, "reject", gres[i].err)
            /\ wonBy' = Won(i)
            /\ UNCHANGED results
       ELSE /\ results' = [results EXCEPT ![i] = gres[i].val]
            /\ UNCHANGED <<dst, wonBy>>
    /\ wg' = wg - 1
    /\ gpc' = [gpc EXCEPT ![i] = "exit"]
    /\ UNCHANGED <<kind, n, built, ctx, src, settled, firedAt, tpc, tres, k,
                   gres, fnCalls, fnIO, workers>>
    /\ UNCHANGED prim

\* an aggregator task that resolves without wg.Wait()
AllResolveNoWait ==
    /\ kind = "All"
    /\ tpc = "wait"
    /\ dst' = Settle(dst, "resolve", Slice(results))
    /\ wonBy' = Won(0)
    /\ tpc' = "exit"
    /\ UNCHANGED <<kind, n, built, ctx, src, settled, firedAt, tres, k,
                   gpc, gres, results, wg, fnCalls, fnIO, workers>>
    /\ UNCHANGED prim

\* `wg.Wait(); resolve(results)`: every waiter is over; the task returns.
AllResolve ==
    /\ kind = "All"
    /\ tpc = "wait"
    /\ wg = 0
    /\ dst' = Settle(dst, "resolve", Slice(results))
    /\ wonBy' = Won(0)
    /\ tpc' = "exit"
    /\ UNCHANGED <<kind, n, built, ctx, src, settled, firedAt, tres, k,
                   gpc, gres, results, wg, fnCalls, fnIO, workers>>
    /\ UNCHANGED prim

\* ---------------------------------------------------------------- Race

\* Race(ctx, promises...) with m promises: NewWithPool hands the task to the
\* default pool; len(promises) is not looked at.
Race(m) ==
    /\ kind = "none"
    /\ kind' = "Race"
    /\ n' = m
    /\ built' = "ok"
    /\ tpc' = "queued"
    /\ UNCHANGED <<ctx, src, settled, firedAt, dst, wonBy, tres, k,
                   gpc, gres, results, wg, fnCalls, fnIO, workers>>
    /\ UNCHANGED prim

\* The task of Race starts; with nothing to range over it returns at once.
RaceTaskRun ==
    /\ kind = "Race"
    /\ tpc = "queued"
    /\ tpc' = IF n = 0 THEN "exit" ELSE "loop"
    /\ UNCHANGED <<kind, n, built, ctx, src, settled, firedAt, dst, wonBy, tres, k,
                   gpc, gres, results, wg, fnCalls, fnIO, workers>>
    /\ UNCHANGED prim

\* One iteration of the loop: `go func(p *Promise[T]) {...}(p)`; after the last
\* one the task returns, with the promise unsettled.
RaceLoop ==
    /\ kind = "Race"
    /\ tpc = "loop"
    /\ k' = k + 1
    /\ gpc' = [gpc EXCEPT ![k + 1] = "queued"]
    /\ tpc' = IF k + 1 = n THEN "exit" ELSE "loop"
    /\ UNCHANGED <<kind, n, built, ctx, src, settled, firedAt, dst, wonBy, tres,
                   gres, results, wg, fnCalls, fnIO, workers>>
    /\ UNCHANGED prim

\* a Race that, once it has a result, rejects the inputs still unsettled
RaceGoDoneStopsLosers(i) ==
    /\ kind = "Race"
    /\ gpc[i] = "got"
    /\ dst' = IF gres[i].err # Nil
              THEN Settle(dst, "reject", gres[i].err)
              ELSE Settle(dst, "resolve", gres[i].val)
    /\ wonBy' = Won(i)
    /\ src' = [j \in Inputs |->
                  IF j <= n /\ ~src[j].done
                  THEN [value |-> Unset, err |-> CtxErr, done |-> TRUE]
                  ELSE src[j]]
    /\ gpc' = [gpc EXCEPT ![i] = "exit"]
    /\ UNCHANGED <<kind, n, built, ctx, settled, firedAt, tpc, tres, k,
                   gres, results, wg, fnCalls, fnIO, workers>>
    /\ UNCHANGED prim

\* The goroutine for input i after its Await:
\* `if err != nil { reject(err) } else { resolve(result) }`
RaceGoDone(i) ==
    /\ kind = "Race"
    /\ gpc[i] = "got"
    /\ dst' = IF gres[i].err # Nil
              THEN Settle(dst, "reject", gres[i].err)
              ELSE Settle(dst, "resolve", gres[i].val)
    /\ wonBy' = Won(i)
    /\ gpc' = [gpc EXCEPT ![i] = "exit"]
    /\ UNCHANGED <<kind, n, built, ctx, src, settled, firedAt, tpc, tres, k,
                   gres, results, wg, fnCalls, fnIO, workers>>
    /\ UNCHANGED prim

\* ---------------------------------------------------------------- Then

\* what the function given to Then may return: a B, or an error
FnReturns ==
    {[val |-> Iface("val", "fb"), err |-> Nil],
     [val |-> Zero, err |-> Iface("err", "fe")]}

\* ThenWithPool(p, ctx, resolve, pool): NewWithPool hands the task to the pool.
\* The source promise p is input 1.
ThenWithPool ==
    /\ kind = "none"
    /\ kind' = "Then"
    /\ n' = 1
    /\ built' = "ok"
    /\ tpc' = "queued"
    /\ UNCHANGED <<ctx, src, settled, firedAt, dst, wonBy, tres, k,
                   gpc, gres, results, wg, fnCalls, fnIO, workers>>
    /\ UNCHANGED prim

\* The task of Then starts and calls p.Await(ctx).
ThenTaskRun ==
    /\ kind = "Then"
    /\ tpc = "queued"
    /\ tpc' = "await"
    /\ UNCHANGED <<kind, n, built, ctx, src, settled, firedAt, dst, wonBy, tres, k,
                   gpc, gres, results, wg, fnCalls, fnIO, workers>>
    /\ UNCHANGED prim

\* `result, err := p.Await(ctx)` returns in the task.
ThenAwait ==
    /\ kind = "Then"
    /\ tpc = "await"
    /\ \E r \in AwaitReturns(src[1], ctx) : tres' = r
    /\ tpc' = "got"
    /\ UNCHANGED <<kind, n, built, ctx, src, settled, firedAt, dst, wonBy, k,
                   gpc, gres, results, wg, fnCalls, fnIO, workers>>
    /\ UNCHANGED prim

\* a Then that wraps the source's error: reject(fmt.Errorf("%v", err))
ThenRejectWraps ==
    /\ kind = "Then"
    /\ tpc = "got"
    /\ tres.err # Nil
    /\ dst' = Settle(dst, "reject", FmtErrorf(tres.err))
    /\ wonBy' = Won(0)
    /\ tpc' = "exit"
    /\ UNCHANGED <<kind, n, built, ctx, src, settled, firedAt, tres, k,
                   gpc, gres, results, wg, fnCalls, fnIO, workers>>
    /\ UNCHANGED prim

\* `if err != nil { reject(err); return }`
ThenReject ==
    /\ kind = "Then"
    /\ tpc = "got"
    /\ tres.err # Nil
    /\ dst' = Settle(dst, "reject", tres.err)
    /\ wonBy' = Won(0)
    /\ tpc' = "exit"
    /\ UNCHANGED <<kind, n, built, ctx, src, settled, firedAt, tres, k,
                   gpc, gres, results, wg, fnCalls, fnIO, workers>>
    /\ UNCHANGED prim

\* a Then that forgets the function's error: resolveB(resultB) always
ThenFnDropsError(r) ==
    /\ kind = "Then"
    /\ tpc = "got"
    /\ tres.err = Nil
    /\ fnCalls' = fnCalls + 1
    /\ fnIO' = [arg |-> tres.val, ret |-> r, panic |-> Nil]
    /\ dst' = Settle(dst, "resolve", r.val)
    /\ wonBy' = Won(0)
    /\ tpc' = "exit"
    /\ UNCHANGED <<kind, n, built, ctx, src, settled, firedAt, tres, k,
                   gpc, gres, results, wg, workers>>
    /\ UNCHANGED prim

\* `resultB, err := resolve(result)` returns r:
\* `if err != nil { reject(err); return }`, `resolveB(resultB)`
ThenFn(r) ==
    /\ kind = "Then"
    /\ tpc = "got"
    /\ tres.err = Nil
    /\ fnCalls' = fnCalls + 1
    /\ fnIO' = [arg |-> tres.val, ret |-> r, panic |-> Nil]
    /\ dst' = IF r.err # Nil
              THEN Settle(dst, "reject", r.err)
              ELSE Settle(dst, "resolve", r.val)
    /\ wonBy' = Won(0)
    /\ tpc' = "exit"
    /\ UNCHANGED <<kind, n, built, ctx, src, settled, firedAt, tres, k,
                   gpc, gres, results, wg, workers>>
    /\ UNCHANGED prim

\* a task of Then whose panic no guard turns into a rejection
ThenFnPanicLost(x) ==
    /\ kind = "Then"
    /\ tpc = "got"
    /\ tres.err = Nil
    /\ fnCalls' = fnCalls + 1
    /\ fnIO' = [arg |-> tres.val, ret |-> NoResult, panic |-> x]
    /\ tpc' = "exit"
    /\ UNCHANGED <<kind, n, built, ctx, src, settled, firedAt, dst, wonBy, tres, k,
                   gpc, gres, results, wg, workers>>
    /\ UNCHANGED prim

\* `resolve(result)` panics with x: the guard of the continuation promise
\* recovers it and rejects with PanicError(x).
ThenFnPanic(x) ==
    /\ kind = "Then"
    /\ tpc = "got"
    /\ tres.err = Nil
    /\ fnCalls' = fnCalls + 1
    /\ fnIO' = [arg |-> tres.val, ret |-> NoResult, panic |-> x]
    /\ dst' = Settle(dst, "reject", PanicError(x))
    /\ wonBy' = Won(0)
    /\ tpc' = "exit"
    /\ UNCHANGED <<kind, n, built, ctx, src, settled, firedAt, tres, k,
                   gpc, gres, results, wg, workers>>
    /\ UNCHANGED prim

\* ---------------------------------------------------------------- Catch

\* what the handler given to Catch may return: an error, or the nil error
HandlerReturns == {Iface("err", "he"), Nil}

\* CatchWithPool(p, ctx, reject, pool): NewWithPool hands the task to the pool.
\* The source promise p is input 1.
CatchWithPool ==
    /\ kind = "none"
    /\ kind' = "Catch"
    /\ n' = 1
    /\ built' = "ok"
    /\ tpc' = "queued"
    /\ UNCHANGED <<ctx, src, settled, firedAt, dst, wonBy, tres, k,
                   gpc, gres, results, wg, fnCalls, fnIO, workers>>
    /\ UNCHANGED prim

\* The task of Catch starts and calls p.Await(ctx).
CatchTaskRun ==
    /\ kind = "Catch"
    /\ tpc = "queued"
    /\ tpc' = "await"
    /\ UNCHANGED <<kind, n, built, ctx, src, settled, firedAt, dst, wonBy, tres, k,
                   gpc, gres, results, wg, fnCalls, fnIO, workers>>
    /\ UNCHANGED prim

\* `result, err := p.Await(ctx)` returns in the task.
CatchAwait ==
    /\ kind = "Catch"
    /\ tpc = "await"
    /\ \E r \in AwaitReturns(src[1], ctx) : tres' = r
    /\ tpc' = "got"
    /\ UNCHANGED <<kind, n, built, ctx, src, settled, firedAt, dst, wonBy, k,
                   gpc, gres, results, wg, fnCalls, fnIO, workers>>
    /\ UNCHANGED prim

\* a Catch that runs its handler on success too
CatchResolveCallsHandler ==
    /\ kind = "Catch"
    /\ tpc = "got"
    /\ tres.err = Nil
    /\ fnCalls' = fnCalls + 1
    /\ fnIO' = [arg |-> Nil, ret |-> [val |-> Zero, err |-> Nil], panic |-> Nil]
    /\ dst' = Settle(dst, "resolve", tres.val)
    /\ wonBy' = Won(0)
    /\ tpc' = "exit"
    /\ UNCHANGED <<kind, n, built, ctx, src, settled, firedAt, tres, k,
                   gpc, gres, results, wg, workers>>
    /\ UNCHANGED prim

\* `else { resolve(result) }`
CatchResolve ==
    /\ kind = "Catch"
    /\ tpc = "got"
    /\ tres.err = Nil
    /\ dst' = Settle(dst, "resolve", tres.val)
    /\ wonBy' = Won(0)
    /\ tpc' = "exit"
    /\ UNCHANGED <<kind, n, built, ctx, src, settled, firedAt, tres, k,
                   gpc, gres, results, wg, fnCalls, fnIO, workers>>
    /\ UNCHANGED prim

\* `if err != nil { internalReject(reject(err)) }` where the handler returns e.
\* With e nil the Store inside the Once panics: the guard of the Catch promise
\* recovers the panic and calls reject again, on a Once that is spent.
CatchFn(e) ==
    /\ kind = "Catch"
    /\ tpc = "got"
    /\ tres.err # Nil
    /\ fnCalls' = fnCalls + 1
    /\ fnIO' = [arg |-> tres.err, ret |-> [val |-> Zero, err |-> e], panic |-> Nil]
    /\ dst' = IF e = Nil /\ ~dst.once
              THEN Settle(Settle(dst, "reject", e), "reject", PanicError(NilStorePanic))
              ELSE Settle(dst, "reject", e)
    /\ wonBy' = Won(0)
    /\ tpc' = "exit"
    /\ UNCHANGED <<kind, n, built, ctx, src, settled, firedAt, tres, k,
                   gpc, gres, results, wg, workers>>
    /\ UNCHANGED prim

\* The handler panics with x: the guard of the Catch promise recovers it and
\* rejects with PanicError(x).
CatchFnPanic(x) ==
    /\ kind = "Catch"
    /\ tpc = "got"
    /\ tres.err # Nil
    /\ fnCalls' = fnCalls + 1
    /\ fnIO' = [arg |-> tres.err, ret |-> NoResult, panic |-> x]
    /\ dst' = Settle(dst, "reject", PanicError(x))
    /\ wonBy' = Won(0)
    /\ tpc' = "exit"
    /\ UNCHANGED <<kind, n, built, ctx, src, settled, firedAt, tres, k,
                   gpc, gres, results, wg, workers>>
    /\ UNCHANGED prim

\* ---------------------------------------------------------------- Finally

\* Finally(p, ctx, fn): NewWithPool hands the task to the default pool. The
\* source promise p is input 1.
Finally ==
    /\ kind = "none"
    /\ kind' = "Finally"
    /\ n' = 1
    /\ built' = "ok"
    /\ tpc' = "queued"
    /\ UNCHANGED <<ctx, src, settled, firedAt, dst, wonBy, tres, k,
                   gpc, gres, results, wg, fnCalls, fnIO, workers>>
    /\ UNCHANGED prim

\* The task of Finally starts and calls p.Await(ctx).
FinallyTaskRun ==
    /\ kind = "Finally"
    /\ tpc = "queued"
    /\ tpc' = "await"
    /\ UNCHANGED <<kind, n, built, ctx, src, settled, firedAt, dst, wonBy, tres, k,
                   gpc, gres, results, wg, fnCalls, fnIO, workers>>
    /\ UNCHANGED prim

\* `result, err := p.Await(ctx)` returns in the task.
FinallyAwait ==
    /\ kind = "Finally"
    /\ tpc = "await"
    /\ \E r \in AwaitReturns(src[1], ctx) : tres' = r
    /\ tpc' = "got"
    /\ UNCHANGED <<kind, n, built, ctx, src, settled, firedAt, dst, wonBy, k,
                   gpc, gres, results, wg, fnCalls, fnIO, workers>>
    /\ UNCHANGED prim

\* a Finally that settles its promise first and runs fn() afterwards
FinallyFnLate ==
    /\ kind = "Finally"
    /\ tpc = "got"
    /\ fnCalls' = fnCalls + 1
    /\ fnIO' = [arg |-> Nil, ret |-> NoResult, panic |-> Nil]
    /\ dst' = IF tres.err # Nil
              THEN Settle(dst, "reject", tres.err)
              ELSE Settle(dst, "resolve", tres.val)
    /\ wonBy' = Won(0)
    /\ tpc' = "called"
    /\ UNCHANGED <<kind, n, built, ctx, src, settled, firedAt, tres, k,
                   gpc, gres, results, wg, workers>>
    /\ UNCHANGED prim

\* `fn()` is called and returns.
FinallyFn ==
    /\ kind = "Finally"
    /\ tpc = "got"
    /\ fnCalls' = fnCalls + 1
    /\ fnIO' = [arg |-> Nil, ret |-> NoResult, panic |-> Nil]
    /\ tpc' = "called"
    /\ UNCHANGED <<kind, n, built, ctx, src, settled, firedAt, dst, wonBy, tres, k,
                   gpc, gres, results, wg, workers>>
    /\ UNCHANGED prim

\* `fn()` panics with x: the guard of the Finally promise recovers it and
\* rejects with PanicError(x).
FinallyFnPanic(x) ==
    /\ kind = "Finally"
    /\ tpc = "got"
    /\ fnCalls' = fnCalls + 1
    /\ fnIO' = [arg |-> Nil, ret |-> NoResult, panic |-> x]
    /\ dst' = Settle(dst, "reject", PanicError(x))
    /\ wonBy' = Won(0)
    /\ tpc' = "exit"
    /\ UNCHANGED <<kind, n, built, ctx, src, settled, firedAt, tres, k,
                   gpc, gres, results, wg, workers>>
    /\ UNCHANGED prim

\* a Finally that rejects with an error made of the text of err
FinallySettleWraps ==
    /\ kind = "Finally"
    /\ tpc = "called"
    /\ dst' = IF tres.err # Nil
              THEN Settle(dst, "reject", FmtErrorf(tres.err))
              ELSE Settle(dst, "resolve", tres.val)
    /\ wonBy' = Won(0)
    /\ tpc' = "exit"
    /\ UNCHANGED <<kind, n, built, ctx, src, settled, firedAt, tres, k,
                   gpc, gres, results, wg, fnCalls, fnIO, workers>>
    /\ UNCHANGED prim

\* `if err != nil { reject(err) } else { resolve(result) }`
FinallySettle ==
    /\ kind = "Finally"
    /\ tpc = "called"
    /\ dst' = IF tres.err # Nil
              THEN Settle(dst, "reject", tres.err)
              ELSE Settle(dst, "resolve", tres.val)
    /\ wonBy' = Won(0)
    /\ tpc' = "exit"
    /\ UNCHANGED <<kind, n, built, ctx, src, settled, firedAt, tres, k,
                   gpc, gres, results, wg, fnCalls, fnIO, workers>>
    /\ UNCHANGED prim

\* ---------------------------------------------------------------- Timeout

\* ctx.Err() of a context.WithTimeout whose deadline has passed
DeadlineErr == Iface("ctx", "context deadline exceeded")

\* an Await that does not look at the deadline's context
TimeoutAwaitReturnsNoDeadline(q, c) ==
    IF q.done THEN {OutcomeOf(q)} ELSE {}

\* p.Await(ctx) in the task of Timeout, ctx being the deadline's context: the
\* returns its select can make now
TimeoutAwaitReturns(q, c) ==
    (IF c THEN {[val |-> Zero, err |-> DeadlineErr]} ELSE {}) \cup
    (IF q.done THEN {OutcomeOf(q)} ELSE {})

\* Timeout(p, d): context.WithTimeout starts the deadline (CtxFire is its
\* expiry) and NewWithPool hands the task to the default pool. The source
\* promise p is input 1.
Timeout ==
    /\ kind = "none"
    /\ kind' = "Timeout"
    /\ n' = 1
    /\ built' = "ok"
    /\ tpc' = "queued"
    /\ UNCHANGED <<ctx, src, settled, firedAt, dst, wonBy, tres, k,
                   gpc, gres, results, wg, fnCalls, fnIO, workers>>
    /\ UNCHANGED prim

\* The task of Timeout starts and calls p.Await(ctx).
TimeoutTaskRun ==
    /\ kind = "Timeout"
    /\ tpc = "queued"
    /\ tpc' = "await"
    /\ UNCHANGED <<kind, n, built, ctx, src, settled, firedAt, dst, wonBy, tres, k,
                   gpc, gres, results, wg, fnCalls, fnIO, workers>>
    /\ UNCHANGED prim

\* `result, err := p.Await(ctx)` returns in the task.
TimeoutAwait ==
    /\ kind = "Timeout"
    /\ tpc = "await"
    /\ \E r \in TimeoutAwaitReturns(src[1], ctx) : tres' = r
    /\ tpc' = "got"
    /\ UNCHANGED <<kind, n, built, ctx, src, settled, firedAt, dst, wonBy, k,
                   gpc, gres, results, wg, fnCalls, fnIO, workers>>
    /\ UNCHANGED prim

\* a Timeout that, when its Await returned an error, rejects the source too
TimeoutSettleStopsSource ==
    /\ kind = "Timeout"
    /\ tpc = "got"
    /\ dst' = IF tres.err # Nil
              THEN Settle(dst, "reject", tres.err)
              ELSE Settle(dst, "resolve", tres.val)
    /\ src' = IF tres.err # Nil /\ ~src[1].done
              THEN [src EXCEPT ![1] = [value |-> Unset, err |-> tres.err, done |-> TRUE]]
              ELSE src
    /\ wonBy' = Won(0)
    /\ tpc' = "settled"
    /\ UNCHANGED <<kind, n, built, ctx, settled, firedAt, tres, k,
                   gpc, gres, results, wg, fnCalls, fnIO, workers>>
    /\ UNCHANGED prim

\* `if err != nil { reject(err) } else { resolve(result) }`
TimeoutSettle ==
    /\ kind = "Timeout"
    /\ tpc = "got"
    /\ dst' = IF tres.err # Nil
              THEN Settle(dst, "reject", tres.err)
              ELSE Settle(dst, "resolve", tres.val)
    /\ wonBy' = Won(0)
    /\ tpc' = "settled"
    /\ UNCHANGED <<kind, n, built, ctx, src, settled, firedAt, tres, k,
                   gpc, gres, results, wg, fnCalls, fnIO, workers>>
    /\ UNCHANGED prim

\* `defer cancel()`: the task returns and the deadline's context is cancelled;
\* a deadline that has not passed never fires afterwards.
TimeoutCancel ==
    /\ kind = "Timeout"
    /\ tpc = "settled"
    /\ ctx' = TRUE
    /\ tpc' = "exit"
    /\ UNCHANGED <<kind, n, built, src, settled, firedAt, dst, wonBy, tres, k,
                   gpc, gres, results, wg, fnCalls, fnIO, workers>>
    /\ UNCHANGED prim

\* ---------------------------------------------------------------- All on a bounded pool

\* the largest capacity of a bounded worker pool
MaxWorkers == 2

\* the submitted units of work a worker of the pool is running: the aggregator
\* task from its start to its return, a waiter from its start to its return
Busy ==
    (IF tpc \in {"loop", "wait"} THEN 1 ELSE 0) +
    Cardinality({i \in Inputs : gpc[i] \in {"await", "got"}})

\* a bounded pool starts a queued submission only when a worker is free
PoolFree == workers > 0 /\ Busy < workers

\* AllWithPool(ctx, pool, promises...) with m >= 1 promises and a pool of w
\* workers: NewWithPool hands the aggregator task to that pool.
AllWithBoundedPool(m, w) ==
    /\ kind = "none"
    /\ m >= 1
    /\ kind' = "All"
    /\ n' = m
    /\ built' = "ok"
    /\ tpc' = "queued"
    /\ workers' = w
    /\ UNCHANGED <<ctx, src, settled, firedAt, dst, wonBy, tres, k,
                   gpc, gres, results, wg, fnCalls, fnIO>>
    /\ UNCHANGED prim

\* a step of the aggregator task or of a waiter on the bounded pool
PoolAllStep ==
    \/ PoolFree /\ AllTaskRun
    \/ AllLoop
    \/ \E i \in Inputs : PoolFree /\ GoRun(i)
    \/ \E i \in Inputs : GoAwait(i)
    \/ \E i \in Inputs : AllGoDone(i)
    \/ AllResolve

\* ---------------------------------------------------------------- specification

Next ==
    \/ \E p \in Promises, task \in Tasks, pool \in Pools : NewWithPool(p, task, pool)
    \/ \E p \in Promises : PoolRun(p)
    \/ \E t \in Threads, v \in ResolveArgs : resolve(t, v)
    \/ \E t \in Threads, e \in RejectArgs : reject(t, e)
    \/ \E t \in Threads : OnceDo(t)
    \/ \E t \in Threads : Store(t)
    \/ \E t \in Threads : Close(t)
    \/ \E t \in Threads : OnceReturn(t)
    \/ \E p \in Promises, x \in PanicValues : TaskPanic(p, x)
    \/ \E p \in Promises : TaskReturn(p)
    \/ \E p \in Promises, h \in Helpers : Spawn(p, h)
    \/ \E p \in Promises : handlePanic(p)
    \/ \E w \in Waiters, cancelled \in BOOLEAN : Await(w, cancelled)
    \/ \E w \in Waiters : CtxCancel(w)
    \/ \E w \in Waiters : AwaitSelect(w)

Spec == Init /\ [][Next]_vars

\* The Go scheduler runs a goroutine whose select has a ready case.
FairSpec == Spec /\ \A w \in Waiters : WF_vars(AwaitSelect(w))

\* All: the aggregator, its waiters, the input promises and the ctx
AllNext ==
    \/ \E m \in 0..NumInputs : AllWithPool(m)
    \/ AllTaskRun
    \/ AllLoop
    \/ \E i \in Inputs : GoRun(i)
    \/ \E i \in Inputs : GoAwait(i)
    \/ \E i \in Inputs : AllGoDone(i)
    \/ AllResolve
    \/ \E i \in Inputs, v \in Values : SrcResolve(i, v)
    \/ \E i \in Inputs, e \in Errors : SrcReject(i, e)
    \/ \E i \in Inputs, x \in PanicValues : SrcPanic(i, x)
    \/ CtxFire

AllSpec == Init /\ [][AllNext]_vars

\* All, its inputs settled by resolve or reject only (a panic of an input's
\* task is one more rejection to All)
AllLiveNext ==
    \/ \E m \in 0..NumInputs : AllWithPool(m)
    \/ AllTaskRun
    \/ AllLoop
    \/ \E i \in Inputs : GoRun(i)
    \/ \E i \in Inputs : GoAwait(i)
    \/ \E i \in Inputs : AllGoDone(i)
    \/ AllResolve
    \/ \E i \in Inputs, v \in Values : SrcResolve(i, v)
    \/ \E i \in Inputs, e \in Errors : SrcReject(i, e)
    \/ CtxFire

\* All with its scheduling: the default pool runs every submitted task and
\* the Go scheduler lets every goroutine that can take a step take it
FairAllSpec ==
    /\ Init /\ [][AllLiveNext]_vars
    /\ WF_vars(AllTaskRun)
    /\ WF_vars(AllLoop)
    /\ \A i \in Inputs : WF_vars(GoRun(i))
    /\ \A i \in Inputs : WF_vars(GoAwait(i))
    /\ \A i \in Inputs : WF_vars(AllGoDone(i))
    /\ WF_vars(AllResolve)

\* Race: its task, its goroutines, the input promises and the ctx
RaceNext ==
    \/ \E m \in 0..NumInputs : Race(m)
    \/ RaceTaskRun
    \/ RaceLoop
    \/ \E i \in Inputs : GoRun(i)
    \/ \E i \in Inputs : GoAwait(i)
    \/ \E i \in Inputs : RaceGoDone(i)
    \/ \E i \in Inputs, v \in Values : SrcResolve(i, v)
    \/ \E i \in Inputs, e \in Errors : SrcReject(i, e)
    \/ \E i \in Inputs, x \in PanicValues : SrcPanic(i, x)
    \/ CtxFire

RaceSpec == Init /\ [][RaceNext]_vars

\* Then: its task, the source promise and the ctx
ThenNext ==
    \/ ThenWithPool
    \/ ThenTaskRun
    \/ ThenAwait
    \/ ThenReject
    \/ \E r \in FnReturns : ThenFn(r)
    \/ \E x \in PanicValues : ThenFnPanic(x)
    \/ \E i \in Inputs, v \in Values : SrcResolve(i, v)
    \/ \E i \in Inputs, e \in Errors : SrcReject(i, e)
    \/ \E i \in Inputs, x \in PanicValues : SrcPanic(i, x)
    \/ CtxFire

ThenSpec == Init /\ [][ThenNext]_vars

\* Catch: its task, the source promise and the ctx
CatchNext ==
    \/ CatchWithPool
    \/ CatchTaskRun
    \/ CatchAwait
    \/ CatchResolve
    \/ \E e \in HandlerReturns : CatchFn(e)
    \/ \E x \in PanicValues : CatchFnPanic(x)
    \/ \E i \in Inputs, v \in Values : SrcResolve(i, v)
    \/ \E i \in Inputs, e \in Errors : SrcReject(i, e)
    \/ \E i \in Inputs, x \in PanicValues : SrcPanic(i, x)
    \/ CtxFire

CatchSpec == Init /\ [][CatchNext]_vars

\* Finally: its task, the source promise and the ctx
FinallyNext ==
    \/ Finally
    \/ FinallyTaskRun
    \/ FinallyAwait
    \/ FinallyFn
    \/ \E x \in PanicValues : FinallyFnPanic(x)
    \/ FinallySettle
    \/ \E i \in Inputs, v \in Values : SrcResolve(i, v)
    \/ \E i \in Inputs, e \in Errors : SrcReject(i, e)
    \/ \E i \in Inputs, x \in PanicValues : SrcPanic(i, x)
    \/ CtxFire

FinallySpec == Init /\ [][FinallyNext]_vars

\* Timeout: its task, the source promise and the deadline
TimeoutNext ==
    \/ Timeout
    \/ TimeoutTaskRun
    \/ TimeoutAwait
    \/ TimeoutSettle
    \/ TimeoutCancel
    \/ \E i \in Inputs, v \in Values : SrcResolve(i, v)
    \/ \E i \in Inputs, e \in Errors : SrcReject(i, e)
    \/ \E i \in Inputs, x \in PanicValues : SrcPanic(i, x)
    \/ CtxFire

TimeoutSpec == Init /\ [][TimeoutNext]_vars

\* Timeout with its scheduling: the default pool runs the task, the Go
\* scheduler lets it take every step it can take, and the timer of
\* context.WithTimeout fires unless cancel() stopped it
FairTimeoutSpec ==
    /\ TimeoutSpec
    /\ WF_vars(TimeoutTaskRun)
    /\ WF_vars(TimeoutAwait)
    /\ WF_vars(TimeoutSettle)
    /\ WF_vars(TimeoutCancel)
    /\ WF_vars(CtxFire)

\* Then, Finally, Timeout or All: the combinators that hand a failure on
PassNext ==
    \/ ThenWithPool
    \/ ThenTaskRun
    \/ ThenAwait
    \/ ThenReject
    \/ \E r \in FnReturns : ThenFn(r)
    \/ \E x \in PanicValues : ThenFnPanic(x)
    \/ Finally
    \/ FinallyTaskRun
    \/ FinallyAwait
    \/ FinallyFn
    \/ \E x \in PanicValues : FinallyFnPanic(x)
    \/ FinallySettle
    \/ Timeout
    \/ TimeoutTaskRun
    \/ TimeoutAwait
    \/ TimeoutSettle
    \/ TimeoutCancel
    \/ \E m \in 0..NumInputs : AllWithPool(m)
    \/ AllTaskRun
    \/ AllLoop
    \/ \E i \in Inputs : GoRun(i)
    \/ \E i \in Inputs : GoAwait(i)
    \/ \E i \in Inputs : AllGoDone(i)
    \/ AllResolve
    \/ \E i \in Inputs, v \in Values : SrcResolve(i, v)
    \/ \E i \in Inputs, e \in Errors : SrcReject(i, e)
    \/ \E i \in Inputs, x \in PanicValues : SrcPanic(i, x)
    \/ CtxFire

PassSpec == Init /\ [][PassNext]_vars

\* All on a bounded worker pool: the aggregator task and the waiters share its
\* workers
PoolAllNext ==
    \/ \E m \in 1..NumInputs, w \in 1..MaxWorkers : AllWithBoundedPool(m, w)
    \/ PoolFree /\ AllTaskRun
    \/ AllLoop
    \/ \E i \in Inputs : PoolFree /\ GoRun(i)
    \/ \E i \in Inputs : GoAwait(i)
    \/ \E i \in Inputs : AllGoDone(i)
    \/ AllResolve
    \/ \E i \in Inputs, v \in Values : SrcResolve(i, v)
    \/ \E i \in Inputs, e \in Errors : SrcReject(i, e)
    \/ CtxFire

PoolAllSpec == Init /\ [][PoolAllNext]_vars

\* ---------------------------------------------------------------- properties

ViaDone(w) == wpc[w] = "returned" /\ wvia[w] = "done"
ViaCtx(w) == wpc[w] = "returned" /\ wvia[w] = "ctx"

\* a goroutine is inside resolve / reject
InCall(t) == pc[t] \in {"call", "once", "stored", "closed"}

\* the wrapper of p is over and no goroutine is inside resolve / reject on p:
\* nothing will call into the promise any more, unless a helper still does
Quiet(p) ==
    /\ ~crashed
    /\ pc[p] = "exit"
    /\ \A t \in Threads : PromiseOf(t) = p => ~InCall(t)

\* what Await returns for a promise settled by call c
ResultOf(c) ==
    IF c.op = "resolve"
    THEN [val |-> c.arg, err |-> Nil]
    ELSE [val |-> Zero, err |-> c.arg]

\* C1: when the first resolve / reject call on a promise is over before any
\* other call is made, the promise holds that call's outcome and nothing
\* else, whatever calls follow: value and err are only ever what the first
\* call stores, done is closed once by it, and every Await that returns
\* through done returns the first call's outcome. (A first call with a nil
\* argument stores nothing; the later calls are no-ops all the same.)
C1_FirstCallWins ==
    \A p \in Promises :
        (first[p] # NoFirst /\ seq[p]) =>
            LET c == first[p]
                stores == c.arg # Nil
                expValue == IF stores /\ c.op = "resolve" THEN c.arg ELSE Unset
                expErr == IF stores /\ c.op = "reject" THEN c.arg ELSE Unset
            IN  /\ value[p] \in {Unset, expValue}
                /\ err[p] \in {Unset, expErr}
                /\ firstDone[p] =>
                      /\ value[p] = expValue
                      /\ err[p] = expErr
                      /\ done[p] = stores
                      /\ closes[p] = IF stores THEN 1 ELSE 0
                /\ \A w \in Waiters :
                      (Awaited(w) = p /\ ViaDone(w)) => (stores /\ wres[w] = ResultOf(c))

\* C1 witness: resolve(a) came first and is over, a second call by the task
\* came after it and has returned, and a waiter got a.
C1_Witness ==
    /\ first["p"] = [thr |-> "p", op |-> "resolve", arg |-> Iface("val", "a")]
    /\ seq["p"]
    /\ pc["p"] = "run"
    /\ pc["h"] = "idle"
    /\ ncalls["p"] = 2
    /\ \E w \in Waiters : ViaDone(w) /\ wres[w] = [val |-> Iface("val", "a"), err |-> Nil]

\* C2: when resolve / reject calls on a promise overlap, done is closed
\* exactly once: never twice, and once the calls and the wrapper are over it
\* is closed; the stored outcome is the argument of the call that won, and a
\* stored outcome never changes.
C2_Settled(p) ==
    /\ closes[p] <= 1
    /\ done[p] =>
          /\ winner[p] # NoFirst
          /\ winner[p].arg # Nil
          /\ Outcome(p) = ResultOf(winner[p])
    /\ (first[p] # NoFirst /\ ~seq[p] /\ Quiet(p)) =>
          /\ closes[p] = 1
          /\ done[p]

C2_ExactlyOneWins ==
    /\ [](\A p \in Promises : C2_Settled(p))
    /\ [][\A p \in Promises :
            done[p] => (done'[p] /\ value'[p] = value[p] /\ err'[p] = err[p])]_vars

\* C3: a promise is unsettled or settled with exactly one of value and error:
\* the two are never both stored, and done is never closed with neither.
C3_ValueXorError ==
    \A p \in Promises :
        /\ value[p] = Unset \/ err[p] = Unset
        /\ done[p] => (value[p] # Unset \/ err[p] # Unset)
        /\ value[p] \notin {Nil, Zero}
        /\ err[p] \notin {Nil, Zero}

\* C3 witness: a rejected promise on which a second call was made afterwards
\* and has returned
C3_Witness ==
    /\ done["p"]
    /\ err["p"] = Iface("err", "e2")
    /\ value["p"] = Unset
    /\ first["p"].op = "reject"
    /\ seq["p"]
    /\ ncalls["p"] = 2
    /\ pc["p"] = "run"

\* C4: an Await that has returned either took the ctx case, with its context
\* cancelled, and returned the zero value and the context's error, or took
\* the done case, with done closed, and returned exactly the outcome the
\* winning call stored; no Await returns while neither signal is there.
C4_NoEarlyObservation ==
    \A w \in Waiters :
        wpc[w] = "returned" =>
            \/ /\ wvia[w] = "ctx"
               /\ wctx[w]
               /\ wres[w] = [val |-> Zero, err |-> CtxErr]
            \/ /\ wvia[w] = "done"
               /\ done[Awaited(w)]
               /\ winner[Awaited(w)].arg # Nil
               /\ wres[w] = ResultOf(winner[Awaited(w)])

\* C4 witness: one Await returned the stored value while another, called
\* with a live context, is still blocked on a promise that became settled
\* only now.
C4_Witness ==
    /\ ViaDone(1)
    /\ ~wctx[1]
    /\ wres[1] = [val |-> Iface("val", "b"), err |-> Nil]
    /\ wpc[2] = "waiting"

\* C5: when the task panics and no resolve / reject was called, the guard
\* rejects the promise: once the wrapper is over the promise is settled with
\* an error, the panic value itself when it is an error and else an error
\* made of the panic value's text, and Await returns that non-nil error.
C5_PanicRejects ==
    \A p \in Promises :
        (pc[p] = "exit" /\ pval[p] # Nil /\ ncalls[p] = 0) =>
            LET e == IF pval[p].kind = "err" THEN pval[p]
                     ELSE [kind |-> "fmt", text |-> pval[p].text]
            IN  /\ done[p]
                /\ err[p] = e
                /\ value[p] = Unset
                /\ e # Nil
                /\ \A w \in Waiters :
                      (Awaited(w) = p /\ ViaDone(w)) => wres[w] = [val |-> Zero, err |-> e]

\* C5 witness: the task panicked with an error, a waiter got that error
C5_Witness ==
    /\ pc["p"] = "exit"
    /\ pval["p"] = Iface("err", "e1")
    /\ ncalls["p"] = 0
    /\ \E w \in Waiters : ViaDone(w) /\ wres[w].err = Iface("err", "e1")

\* C6: a promise whose task has run is settled in the end, whatever the task
\* did. Here for a task that called resolve or reject or panicked: once the
\* wrapper is over and no goroutine is inside resolve / reject, done is closed.
\* (A task that returns without calling either leaves the promise to whoever
\* holds its callbacks, which is how Race works.)
C6_EverySettles ==
    \A p \in Promises :
        (Quiet(p) /\ (ncalls[p] >= 1 \/ pval[p] # Nil)) => done[p]

\* C7: a step in which an Await returns, or in which a waiter's context is
\* cancelled, changes nothing of the promise, its task or its helpers; and an
\* Await that returns while the promise is unsettled returns the zero value
\* and the context's error.
C7_CancelOnlyWaiter ==
    [][\A w \in Waiters :
          /\ (wpc'[w] # wpc[w] \/ wctx'[w] # wctx[w]) => UNCHANGED <<pvars, cvars, tvars, hvars>>
          /\ (wpc[w] = "waiting" /\ wpc'[w] = "returned" /\ ~done[Awaited(w)]) =>
                (wctx[w] /\ wres'[w] = [val |-> Zero, err |-> CtxErr])]_vars

\* C7 witness: waiter 1 was cancelled and returned while the promise is
\* unsettled; the task is still running and waiter 2 is still blocked.
C7_Witness ==
    /\ ViaCtx(1)
    /\ wres[1] = [val |-> Zero, err |-> CtxErr]
    /\ ~done["p"]
    /\ value["p"] = Unset /\ err["p"] = Unset
    /\ pc["p"] = "run"
    /\ wpc[2] = "waiting"
    /\ ~wctx[2]

\* C8: every Await blocked on a settled promise returns (no Await stays
\* blocked for ever once close(p.done) has been executed), and all the Awaits
\* on a promise that returned through done returned the same outcome.
C8_AllWaitersReleased ==
    /\ \A w \in Waiters : []<>(wpc[w] # "waiting" \/ closes[Awaited(w)] = 0)
    /\ [](\A v, w \in Waiters :
            (ViaDone(v) /\ ViaDone(w) /\ Awaited(v) = Awaited(w)) => wres[v] = wres[w])

\* C8 witness: two waiters with live contexts both returned the same error
C8_Witness ==
    /\ \A w \in {1, 2} : ViaDone(w) /\ ~wctx[w]
    /\ wres[1] = [val |-> Zero, err |-> Iface("err", "e1")]
    /\ wres[2] = wres[1]

\* C9: when the first call on a promise is reject(err), for every err, Await
\* with a live context returns a non-nil error and no value: once the wrapper
\* is over, an Await still blocked is blocked on a promise that is settled
\* with an error (it is released), and an Await that returned through done
\* returned a non-nil error.
C9_RejectGivesError ==
    \A p \in Promises :
        (first[p].op = "reject" /\ seq[p] /\ Quiet(p)) =>
            \A w \in Waiters :
                /\ (Awaited(w) = p /\ wpc[w] = "waiting" /\ ~wctx[w]) =>
                      (done[p] /\ err[p] \notin {Unset, Nil})
                /\ (Awaited(w) = p /\ ViaDone(w)) =>
                      (wres[w].val = Zero /\ wres[w].err \notin {Unset, Nil})

\* C10: NewWithPool with a nil task or a nil pool panics: there is no
\* promise, nothing is handed to the pool, and no task ever runs.
C10_NilArgsPanic ==
    \A p \in Promises :
        (ctorArgs[p].task = NilFn \/ ctorArgs[p].pool = NilFn) =>
            /\ ctor[p] = "panic"
            /\ p \notin queue
            /\ pc[p] = "idle"
            /\ ~done[p]
            /\ \A w \in Waiters : Awaited(w) = p => wpc[w] = "idle"

\* C10 witness: NewWithPool was called with a task and a nil pool
C10_Witness ==
    /\ ctor["p"] = "panic"
    /\ ctorArgs["p"] = [task |-> "task", pool |-> NilFn]

\* ---------------------------------------------------------------- properties of All

Resolved(i) == src[i].done /\ src[i].err = Unset
Rejected(i) == src[i].done /\ src[i].err # Unset

\* the rejected inputs, in the order they settled
RejectedInOrder == SelectSeq(settled, LAMBDA i : src[i].err # Unset)

\* C11: whenever the promise of All is resolved, its value is a slice as long
\* as the input, every input is resolved, and slot i holds the value input i
\* resolved with, whatever the order the inputs settled in.
C11_AllIndexPreserving ==
    (kind = "All" /\ dst.value # Unset) =>
        /\ dst.value.kind = "slice"
        /\ DOMAIN dst.value.text = 1..n
        /\ \A i \in 1..n : Resolved(i) /\ dst.value.text[i] = src[i].value

\* C11 witness: input 2 settled before input 1, with different values
C11_Witness ==
    /\ kind = "All"
    /\ settled = <<2, 1>>
    /\ src[1].value = Iface("val", "a")
    /\ src[2].value = Iface("val", "b")
    /\ dst.done
    /\ dst.value = Slice(<<Iface("val", "a"), Iface("val", "b")>>)

\* C12: a waiter of All that holds the rejection of its input is never made to
\* wait for anything (its reject is its next step, whatever the other inputs
\* and waiters do), and once it has taken that step the promise of All is
\* rejected.
C12_AllFailFast ==
    \A i \in Inputs :
        (kind = "All" /\ Rejected(i) /\ gres[i] = OutcomeOf(src[i])) =>
            /\ gpc[i] = "got" => ENABLED AllGoDone(i)
            /\ gpc[i] = "exit" => (dst.done /\ dst.err # Unset /\ dst.value = Unset)

\* C12 witness: the promise of All is rejected with the error of input 1 while
\* input 2 is unsettled and its waiter is blocked
C12_Witness ==
    /\ kind = "All"
    /\ n = 2
    /\ gpc[1] = "exit"
    /\ gres[1].err = Iface("err", "e1")
    /\ ~ctx
    /\ dst.done
    /\ dst.err = Iface("err", "e1")
    /\ ~src[2].done
    /\ gpc[2] = "await"

\* C13: when an input of All is rejected (by reject or by a panic of its task)
\* the promise of All is never resolved, and once the aggregator task is over
\* (its resolve(results) has run) it is rejected: Await returns a nil result
\* and a non-nil error.
C13_AllNeverResolvesAfterReject ==
    (kind = "All" /\ \E i \in 1..n : Rejected(i)) =>
        /\ dst.value = Unset
        /\ tpc = "exit" =>
              /\ dst.done
              /\ dst.err \notin {Unset, Nil}
              /\ OutcomeOf(dst).val = Zero
              /\ OutcomeOf(dst).err # Nil

\* C13 witness: input 1 panicked, input 2 resolved, every waiter and the
\* aggregator task are over
C13_Witness ==
    /\ kind = "All"
    /\ n = 2
    /\ tpc = "exit"
    /\ src[1].err = Iface("fmt", "boom")
    /\ src[2].value = Iface("val", "a")
    /\ dst.err = Iface("fmt", "boom")
    /\ wonBy = 1

\* C14: when the promise of All is rejected and the ctx was never cancelled,
\* its error is the error of the input that was rejected first.
C14_AllFirstRejectionWins ==
    (kind = "All" /\ ~ctx /\ dst.err # Unset) =>
        /\ RejectedInOrder # <<>>
        /\ dst.err = src[Head(RejectedInOrder)].err

\* C15: when the ctx of All is cancelled before every input has settled and no
\* input is rejected, the promise of All is never resolved, and once the
\* aggregator task is over it is rejected with the ctx's error.
C15_AllCancelRejects ==
    (kind = "All" /\ ctx /\ firedAt < n /\ \A i \in 1..n : ~Rejected(i)) =>
        /\ dst.value = Unset
        /\ tpc = "exit" => dst.err = CtxErr

\* C16: AllWithPool without promises panics: no promise is returned, no task
\* is handed to the pool, no goroutine is started, nothing is ever settled.
C16_AllEmptyPanics ==
    (kind = "All" /\ n = 0) =>
        /\ built = "panic"
        /\ tpc = "idle"
        /\ \A i \in Inputs : gpc[i] = "idle"
        /\ dst = [value |-> Unset, err |-> Unset, done |-> FALSE, once |-> FALSE]

\* C16 witness: AllWithPool was called with no promise
C16_Witness ==
    /\ kind = "All"
    /\ n = 0
    /\ built = "panic"

\* ---------------------------------------------------------------- properties of Race

\* C17: Race without promises fails at the call: it panics and returns no
\* promise, so that no task runs for it.
C17_RaceEmptyPanics ==
    (kind = "Race" /\ n = 0) =>
        /\ built = "panic"
        /\ tpc = "idle"

\* C18: when the promise of Race is settled and the ctx was never cancelled,
\* its outcome is the outcome of the input that settled first.
C18_RaceFirstSettledWins ==
    (kind = "Race" /\ ~ctx /\ dst.done) =>
        /\ settled # <<>>
        /\ OutcomeOf(dst) = OutcomeOf(src[Head(settled)])

\* C19: no step of Race (of its task or of its goroutines) changes an input
\* promise; once the promise of Race is settled no step changes it, the later
\* settlement of a loser included; and an input that is unsettled can still be
\* settled by its own task, after the race is decided as before.
C19_RaceLeavesLosersAlone ==
    /\ [][(kind = "Race" /\ (dst' # dst \/ gpc' # gpc \/ tpc' # tpc)) => src' = src]_vars
    /\ [][(kind = "Race" /\ dst.done) => dst' = dst]_vars
    /\ [][\A i \in Inputs : (kind = "Race" /\ src[i].done) => src'[i] = src[i]]_vars
    /\ [](\A i \in Inputs :
            (kind = "Race" /\ built = "ok" /\ i <= n /\ ~src[i].done) =>
                \A v \in Values : ENABLED SrcResolve(i, v))

\* C19 witness: input 1 won the race with a; input 2 was rejected afterwards
\* with e1, its goroutine saw that error and its reject changed nothing
C19_Witness ==
    /\ kind = "Race"
    /\ settled = <<1, 2>>
    /\ wonBy = 1
    /\ dst.value = Iface("val", "a")
    /\ dst.err = Unset
    /\ src[2].err = Iface("err", "e1")
    /\ gpc[2] = "exit"
    /\ gres[2].err = Iface("err", "e1")

\* ---------------------------------------------------------------- properties of Then

\* C20 as stated: when the source of Then is rejected with e, the function is
\* never called, and once the task of Then is over the continuation promise
\* is rejected with exactly e. (Stated for a ctx that was not cancelled after
\* the source had settled: that case is the select's free choice between two
\* ready cases.)
C20_ThenPropagatesError ==
    (kind = "Then" /\ Rejected(1) /\ firedAt \in {0, NoFire}) =>
        /\ fnCalls = 0
        /\ tpc = "exit" => (dst.done /\ dst.value = Unset /\ dst.err = src[1].err)

\* C20 amended: when the source of Then is rejected with e, the function is
\* never called, and once the task of Then is over the continuation promise
\* is rejected with exactly e, or with the ctx's error when the ctx given to
\* Then was cancelled before its Await returned.
C20_ThenPropagatesErrorOrCtx ==
    (kind = "Then" /\ Rejected(1)) =>
        /\ fnCalls = 0
        /\ dst.value = Unset
        /\ tpc = "exit" =>
              /\ dst.done
              /\ dst.err \in {src[1].err, CtxErr}
              /\ dst.err = CtxErr => ctx
              /\ ~ctx => dst.err = src[1].err

\* C20 witness: the source was rejected with e1, the ctx is live, the task of
\* Then is over and the continuation promise holds e1
C20_Witness ==
    /\ kind = "Then"
    /\ src[1].err = Iface("err", "e1")
    /\ ~ctx
    /\ tpc = "exit"
    /\ fnCalls = 0
    /\ dst.done
    /\ dst.err = Iface("err", "e1")

\* the continuation promise holds what the call of the function led to: its
\* value, its error, or the error made of its panic
FnOutcome ==
    IF fnIO.panic # Nil THEN [val |-> Zero, err |-> PanicError(fnIO.panic)]
    ELSE IF fnIO.ret.err # Nil THEN [val |-> Zero, err |-> fnIO.ret.err]
    ELSE [val |-> fnIO.ret.val, err |-> Nil]

C22_CatchPassesValue ==
    (kind = "Catch" /\ Resolved(1) /\ firedAt \in {0, NoFire}) =>
        /\ fnCalls = 0
        /\ tpc = "exit" => (dst.done /\ dst.err = Unset /\ dst.value = src[1].value)

\* C22 amended: when the source of Catch is resolved with v, the Catch promise
\* is never resolved with anything but v; the handler is called only when the
\* ctx given to Catch was cancelled before its Await returned, and then with
\* the ctx's error; once the task of Catch is over without a call of the
\* handler, the Catch promise is resolved with exactly v.
C22_CatchPassesValueOrCtx ==
    (kind = "Catch" /\ Resolved(1)) =>
        /\ dst.value \in {Unset, src[1].value}
        /\ fnCalls <= 1
        /\ fnCalls = 1 => (ctx /\ fnIO.arg = CtxErr /\ dst.value = Unset)
        /\ (tpc = "exit" /\ ~ctx) => fnCalls = 0
        /\ (tpc = "exit" /\ fnCalls = 0) =>
              (dst.done /\ dst.err = Unset /\ dst.value = src[1].value)

\* C22 witness: the source was resolved with a, the ctx was cancelled after
\* that, the Await of Catch took the value and the Catch promise holds a
C22_Witness ==
    /\ kind = "Catch"
    /\ src[1].value = Iface("val", "a")
    /\ ctx
    /\ firedAt = 1
    /\ tpc = "exit"
    /\ fnCalls = 0
    /\ dst.done
    /\ dst.value = Iface("val", "a")

\* C23: when the source of Catch is rejected with e and the ctx is never
\* cancelled, once the task of Catch is over the handler was called once, with
\* e, and the Catch promise is settled: rejected with what the handler
\* returned, whatever it returned, and not resolved.
C23_CatchRejectsWithHandler ==
    (kind = "Catch" /\ Rejected(1) /\ ~ctx /\ tpc = "exit" /\ fnIO.panic = Nil) =>
        /\ fnCalls = 1
        /\ fnIO.arg = src[1].err
        /\ dst.value = Unset
        /\ dst.done
        /\ dst.err = fnIO.ret.err

\* ---------------------------------------------------------------- properties of Finally

\* C24 as stated: the Finally promise is settled only after fn has run; once
\* the source is settled and the task of Finally is over, fn was called
\* exactly once and the Finally promise holds the source's outcome, the same
\* value or the same error. (Stated for a ctx that was not cancelled after the
\* source had settled, and an fn that returns.)
C24_FinallyReproduces ==
    kind = "Finally" =>
        /\ dst.done => fnCalls = 1
        /\ (src[1].done /\ tpc = "exit" /\ firedAt \in {0, NoFire} /\ fnIO.panic = Nil) =>
              /\ fnCalls = 1
              /\ dst.done
              /\ OutcomeOf(dst) = OutcomeOf(src[1])

\* C24 amended: fn is called at most once, and exactly once by the time the
\* task of Finally is over; the Finally promise is settled only after fn has
\* run and returned (or panicked); it then holds what the Await of Finally
\* returned, which is the source's outcome unchanged, or the ctx's error when
\* the ctx given to Finally was cancelled before that Await returned; when fn
\* panicked it holds the error made of the panic.
C24_FinallyReproducesOrCtx ==
    kind = "Finally" =>
        /\ fnCalls <= 1
        /\ dst.once => (dst.done /\ fnCalls = 1 /\ tpc = "exit")
        /\ tpc = "exit" => (dst.done /\ fnCalls = 1)
        /\ (dst.done /\ fnIO.panic # Nil) =>
              OutcomeOf(dst) = [val |-> Zero, err |-> PanicError(fnIO.panic)]
        /\ (dst.done /\ fnIO.panic = Nil) =>
              /\ OutcomeOf(dst) = tres
              /\ \/ src[1].done /\ tres = OutcomeOf(src[1])
                 \/ ctx /\ tres = [val |-> Zero, err |-> CtxErr]
              /\ ~ctx => (src[1].done /\ OutcomeOf(dst) = OutcomeOf(src[1]))

\* C24 witness: the source was rejected with e1, fn has run once, and the
\* Finally promise holds e1
C24_Witness ==
    /\ kind = "Finally"
    /\ src[1].err = Iface("err", "e1")
    /\ ~ctx
    /\ tpc = "exit"
    /\ fnCalls = 1
    /\ fnIO.panic = Nil
    /\ dst.done
    /\ dst.err = Iface("err", "e1")
    /\ dst.value = Unset

\* ---------------------------------------------------------------- properties of Timeout

\* C25: a settled Timeout promise holds the source's outcome when the source
\* settled before the deadline passed (or the deadline never passed), and the
\* deadline's error when the deadline passed while the source was unsettled;
\* it never holds a value the source did not produce.
C25_TimeoutByOrder ==
    (kind = "Timeout" /\ dst.done) =>
        /\ firedAt # 0 => (src[1].done /\ OutcomeOf(dst) = OutcomeOf(src[1]))
        /\ firedAt = 0 => OutcomeOf(dst) = [val |-> Zero, err |-> DeadlineErr]
        /\ dst.value # Unset => (src[1].done /\ dst.value = src[1].value)

\* C26: no step of Timeout and no expiry of its deadline changes the source
\* promise; once the Timeout promise is settled no step changes it, the later
\* settlement of the source included; a settled source never changes; and a
\* source that is unsettled can still be settled by its own task, after the
\* expiry as before.
C26_TimeoutLeavesSourceAlone ==
    /\ [][(kind = "Timeout" /\ (dst' # dst \/ tpc' # tpc \/ ctx' # ctx)) => src' = src]_vars
    /\ [][(kind = "Timeout" /\ dst.done) => dst' = dst]_vars
    /\ [][(kind = "Timeout" /\ src[1].done) => src'[1] = src[1]]_vars
    /\ []((kind = "Timeout" /\ ~src[1].done) =>
            \A v \in Values : ENABLED SrcResolve(1, v))

\* C26 witness: the deadline passed first and the Timeout promise was rejected
\* with its error; the source resolved with a afterwards
C26_Witness ==
    /\ kind = "Timeout"
    /\ firedAt = 0
    /\ tpc = "exit"
    /\ dst.done
    /\ dst.err = DeadlineErr
    /\ dst.value = Unset
    /\ settled = <<1>>
    /\ src[1].value = Iface("val", "a")
    /\ src[1].err = Unset

\* ---------------------------------------------------------------- properties of All on a bounded pool

\* C27: on a pool of any capacity, an aggregate whose inputs have all settled
\* is settled or can still take a step towards it: the aggregator task and
\* the waiters never block each other for ever.
C27_AllNeverStuckOnPool ==
    (kind = "All" /\ built = "ok" /\ workers >= 1
        /\ (\A i \in 1..n : src[i].done) /\ ~dst.done) =>
        ENABLED PoolAllStep

\* C28: the promise of All is resolved only when every input is resolved, and
\* when every input has resolved and the ctx is never cancelled the promise of
\* All is resolved in the end, whatever the order the inputs settled in: the
\* states in which an input is unresolved, the ctx is cancelled or the
\* aggregate is resolved keep coming back.
C28_AllResolvesIffAllResolve ==
    /\ []((kind = "All" /\ dst.value # Unset) =>
            (dst.done /\ dst.err = Unset /\ \A i \in 1..n : Resolved(i)))
    /\ []<>(\/ kind # "All"
            \/ built # "ok"
            \/ ctx
            \/ \E i \in 1..n : ~Resolved(i)
            \/ dst.done /\ dst.value # Unset /\ dst.err = Unset)

\* C28 witness: input 2 resolved before input 1, the ctx was not cancelled,
\* and the promise of All is resolved
C28_Witness ==
    /\ kind = "All"
    /\ n = 2
    /\ settled = <<2, 1>>
    /\ Resolved(1)
    /\ Resolved(2)
    /\ ~ctx
    /\ tpc = "exit"
    /\ dst.done
    /\ dst.value # Unset

\* ---------------------------------------------------------------- properties of Await's select

\* C29: an Await returns the ctx's error only when the ctx was cancelled while
\* the promise was unsettled; when the promise had settled before the ctx was
\* cancelled, the Await (here the one in the task of Then, on its source)
\* returns the stored value or error.
C29_AwaitCtxOnlyIfFirst ==
    (kind = "Then" /\ tres.err = CtxErr) => firedAt = 0

\* C30: when the function given to Then panics, the continuation promise is
\* rejected with the error made of the panic value (the panic value itself
\* when it is an error, else its formatted text) and is not left unsettled;
\* the source promise keeps the value it resolved with, which is the value the
\* function was called with.
C30_ThenFnPanicRejects ==
    (kind = "Then" /\ fnIO.panic # Nil) =>
        /\ fnCalls = 1
        /\ tpc = "exit"
        /\ dst.done
        /\ dst.value = Unset
        /\ dst.err = (IF IsError(fnIO.panic) THEN fnIO.panic ELSE FmtErrorf(fnIO.panic))
        /\ Resolved(1)
        /\ src[1].value = fnIO.arg

\* C30 witness: the source resolved with a, the function panicked with the
\* string "boom", and the continuation promise is rejected with its text
C30_Witness ==
    /\ kind = "Then"
    /\ src[1].value = Iface("val", "a")
    /\ fnIO.arg = Iface("val", "a")
    /\ fnIO.panic = Iface("str", "boom")
    /\ dst.done
    /\ dst.err = FmtErrorf(Iface("str", "boom"))
    /\ dst.value = Unset

\* ---------------------------------------------------------------- termination of Timeout

\* C31: a Timeout promise is settled in the end, whether the source ever
\* settles or not (the states in which it is settled keep coming back once
\* Timeout was called), and it is settled as soon as its task has made its
\* resolve / reject call.
C31_TimeoutSettles ==
    /\ []<>(kind # "Timeout" \/ dst.done)
    /\ []((kind = "Timeout" /\ tpc \in {"settled", "exit"}) => dst.done)

\* C31 witness: the source never settled, the deadline passed, and the task
\* is over with the Timeout promise rejected with the deadline's error
C31_Witness ==
    /\ kind = "Timeout"
    /\ settled = <<>>
    /\ ~src[1].done
    /\ firedAt = 0
    /\ tpc = "exit"
    /\ dst.done
    /\ dst.err = DeadlineErr

\* ---------------------------------------------------------------- a panic after the settlement

\* C32: a resolve / reject call that returns to the task's code leaves the
\* promise settled; when the task's code then panics, no step changes the
\* promise any more, the reject of the guard included: value, err and done
\* stay as they were before the panic, and every Await that returns through
\* done returns that outcome.
C32_PanicKeepsOutcome ==
    /\ [][\A p \in Promises : (InCall(p) /\ pc'[p] = "run") => done'[p]]_vars
    /\ [][\A p \in Promises :
            (done[p] /\ (pval[p] \in PanicValues \/ pval'[p] \in PanicValues)) =>
                /\ value'[p] = value[p]
                /\ err'[p] = err[p]
                /\ done'[p]]_vars
    /\ [](\A w \in Waiters :
            (ViaDone(w) /\ pval[Awaited(w)] \in PanicValues) => wres[w] = Outcome(Awaited(w)))

\* C32 witness: the task resolved with a and then panicked with "boom"; the
\* wrapper is over, the promise holds a and no error, and an Await returned a
C32_Witness ==
    /\ pc["p"] = "exit"
    /\ pc["h"] = "idle"
    /\ ncalls["p"] = 1
    /\ pval["p"] = Iface("str", "boom")
    /\ done["p"]
    /\ value["p"] = Iface("val", "a")
    /\ err["p"] = Unset
    /\ ViaDone(1)
    /\ wres[1] = [val |-> Iface("val", "a"), err |-> Nil]

\* ---------------------------------------------------------------- the outcome of Race and the ctx

\* C33: a settled promise of Race holds the outcome of one of its inputs or
\* the error of the ctx given to Race; when the ctx was cancelled while every
\* input was unsettled it holds the ctx's error; and while no input has
\* settled and the ctx is not cancelled it is unsettled.
C33_RaceOutcomeFromInputOrCtx ==
    kind = "Race" =>
        /\ dst.done =>
              \/ \E i \in 1..n : src[i].done /\ OutcomeOf(dst) = OutcomeOf(src[i])
              \/ ctx /\ OutcomeOf(dst) = [val |-> Zero, err |-> CtxErr]
        /\ (dst.done /\ firedAt = 0) => OutcomeOf(dst) = [val |-> Zero, err |-> CtxErr]
        /\ (~ctx /\ settled = <<>>) => ~dst.done

\* ---------------------------------------------------------------- Then and a ctx cancelled first

\* C34: when the ctx given to Then was cancelled while the source was
\* unsettled, the function is never called and, once the task of Then is
\* over, the continuation promise is rejected with the ctx's error; the source
\* is as its own task left it, and while unsettled it can still be settled.
C34_ThenCancelledFirst ==
    (kind = "Then" /\ firedAt = 0) =>
        /\ fnCalls = 0
        /\ tpc = "exit" => (dst.done /\ dst.value = Unset /\ dst.err = CtxErr)
        /\ ~src[1].done => \A v \in Values : ENABLED SrcResolve(1, v)

\* ---------------------------------------------------------------- failures handed on

\* the error of the combinator's own signal: the deadline's for Timeout, the
\* ctx's for the others
SignalErr == IF kind = "Timeout" THEN DeadlineErr ELSE CtxErr

\* C35 as stated: whenever the promise of Then, Finally, Timeout or All is
\* rejected, its error is the error one of its sources was rejected with, or
\* the error of its own signal, which has fired, or, for Then after a source
\* that resolved, the error its function returned.
C35_NoReplacedFailure ==
    (kind \in {"Then", "Finally", "Timeout", "All"} /\ dst.done /\ dst.err # Unset) =>
        \/ \E i \in 1..n : Rejected(i) /\ dst.err = src[i].err
        \/ firedAt # NoFire /\ dst.err = SignalErr
        \/ kind = "Then" /\ Resolved(1) /\ fnIO.ret.err \notin {Nil, Unset}
              /\ dst.err = fnIO.ret.err

\* C35 amended: whenever the promise of Then, Finally, Timeout or All is
\* rejected, its error is the error one of its sources was rejected with, or
\* the error of its own signal, which has fired, or, for Then after a source
\* that resolved, the error its function returned, or, for Then and Finally,
\* the error made of the panic of the function they were given.
C35_NoReplacedFailureButPanic ==
    (kind \in {"Then", "Finally", "Timeout", "All"} /\ dst.done /\ dst.err # Unset) =>
        \/ \E i \in 1..n : Rejected(i) /\ dst.err = src[i].err
        \/ firedAt # NoFire /\ dst.err = SignalErr
        \/ kind = "Then" /\ Resolved(1) /\ fnIO.ret.err \notin {Nil, Unset}
              /\ dst.err = fnIO.ret.err
        \/ kind \in {"Then", "Finally"} /\ fnIO.panic # Nil
              /\ dst.err = PanicError(fnIO.panic)

\* C35 witness: the source of Finally was rejected with e2, the ctx was not
\* cancelled, the function returned, and the promise of Finally holds e2
C35_Witness ==
    /\ kind = "Finally"
    /\ src[1].err = Iface("err", "e2")
    /\ firedAt = NoFire
    /\ fnCalls = 1
    /\ fnIO.panic = Nil
    /\ dst.done
    /\ dst.err = Iface("err", "e2")

====
